---- MODULE Spec2Model ----
(***************************************************************************)
(* Model of the DCD command encoder of imxrt-dcd (src/src/lib.rs).         *)
(*                                                                         *)
(* One behaviour is one call serialize(w, commands): the sizing pass, the  *)
(* 16-bit length check, the block header and the emission pass, one step   *)
(* per group of the sizing loop and one step per write_all call.           *)
(*                                                                         *)
(* The sink w is any std::io::Write: each write_all either accepts the     *)
(* whole buffer, or fails after accepting a prefix of it, which may be the *)
(* whole buffer (a buffering writer such as LineWriter takes the bytes and *)
(* then fails in its flush).                                               *)
(*                                                                         *)
(* A second specification, MacroSpec, models the command-builder macros of  *)
(* src/src/macros.rs: one behaviour is one macro invocation on an arg list. *)
(*                                                                         *)
(* TLC integers are 32-bit signed, so the u32 addresses, values, masks and *)
(* counts of the inputs are drawn below 2^31.                              *)
(***************************************************************************)
EXTENDS Integers, Sequences, FiniteSets

VARIABLES commands, pc, i, j, byte_len, out, nwrites, result, ret,
          margs, mtrailing, mcmd, mpc

\* the state of a macro invocation: its args, whether a comma follows the last
\* arg, the command it builds
mvars == <<margs, mtrailing, mcmd, mpc>>

vars == <<commands, pc, i, j, byte_len, out, nwrites, result, ret, mvars>>

(***************************************************************************)
(* Bounds of the input space.                                              *)
(***************************************************************************)
\* longest command list drawn from every combination of Cmds
MaxLen == 3
\* run length of the medium inputs (block length above one byte)
MedRun == 32
\* most args of a macro invocation
MaxArgs == 3

(***************************************************************************)
(* Program constants.                                                      *)
(***************************************************************************)
U16_MAX == 65535
\* stands for usize::MAX in group_key: a value no slice index of the model takes
USIZE_MAX == 2147483647

Width_B1 == 1
Width_B2 == 2
\* mutant: the 4-byte width tag lies in bit 3, the low bit of the op / cond tag
Width_B4_Overlap == 4 + 4

Width_B4 == 4

WriteOp_Write == 0
WriteOp_Clear == 8
WriteOp_Set == 24

CheckCond_AllClear == 0
CheckCond_AnyClear == 8
CheckCond_AllSet == 16
CheckCond_AnySet == 24

Width == {Width_B1, Width_B2, Width_B4}
WriteOp == {WriteOp_Write, WriteOp_Clear, WriteOp_Set}
CheckCond == {CheckCond_AllClear, CheckCond_AnyClear, CheckCond_AllSet, CheckCond_AnySet}

(***************************************************************************)
(* Commands.  count : Option<u32> is <<>> for None and <<x>> for Some(x).  *)
(***************************************************************************)
Nop == [kind |-> "Nop"]
WriteCmd(w, o, a, v) ==
    [kind |-> "Write", width |-> w, op |-> o, address |-> a, value |-> v]
CheckCmd(w, c, a, m, n) ==
    [kind |-> "Check", width |-> w, cond |-> c, address |-> a, mask |-> m, count |-> n]

(***************************************************************************)
(* Integer helpers: bitwise or, and, shift; big-endian bytes.               *)
(***************************************************************************)
RECURSIVE BitOr(_, _)
BitOr(a, b) ==
    IF a = 0 THEN b
    ELSE IF b = 0 THEN a
    ELSE (IF a % 2 = 1 \/ b % 2 = 1 THEN 1 ELSE 0) + 2 * BitOr(a \div 2, b \div 2)

RECURSIVE BitAnd(_, _)
BitAnd(a, b) ==
    IF a = 0 \/ b = 0 THEN 0
    ELSE (IF a % 2 = 1 /\ b % 2 = 1 THEN 1 ELSE 0) + 2 * BitAnd(a \div 2, b \div 2)

RECURSIVE Pow2(_)
Pow2(n) == IF n = 0 THEN 1 ELSE 2 * Pow2(n - 1)

\* u32 << n: the bits shifted past bit 31 are dropped
Shl32(x, n) == (x % Pow2(32 - n)) * Pow2(n)

u16_to_be_bytes(x) == << (x \div 256) % 256, x % 256 >>

u32_to_be_bytes(x) ==
    << (x \div 16777216) % 256, (x \div 65536) % 256, (x \div 256) % 256, x % 256 >>

(***************************************************************************)
(* Byte layout of the header and of the records.                           *)
(***************************************************************************)
\* mutant: the length is stored little-endian
dcd_header_LittleEndian(len) == <<210, len % 256, (len \div 256) % 256, 65>>

dcd_header(len) == <<210>> \o u16_to_be_bytes(len) \o <<65>>

NOP_HEADER == <<192, 0, 4, 0>>

\* the assertion of Write::byte_len
Write_byte_len_assert(group_size) == 4 + group_size * 8 <= U16_MAX

\* mutant: the 4 bytes of the record header are left out of the length
Write_byte_len_NoHeader(group_size) == (group_size * 8) % (U16_MAX + 1)

\* the value of Write::byte_len, n as u16
Write_byte_len(group_size) == (4 + group_size * 8) % (U16_MAX + 1)

Write_header(write, group_size) ==
    <<204>> \o u16_to_be_bytes(Write_byte_len(group_size))
            \o << BitOr(write.width, write.op) >>

\* mutant: the value is put before the address
Write_payload_ValueFirst(write) ==
    u32_to_be_bytes(write.value) \o u32_to_be_bytes(write.address)

Write_payload(write) ==
    u32_to_be_bytes(write.address) \o u32_to_be_bytes(write.value)

\* mutant: the count is left out of the length
Check_byte_len_NoCount(check) == 12

\* mutant: Some(0) is taken for None
Check_byte_len_ZeroIsNone(check) ==
    IF check.count # <<>> /\ check.count # <<0>> THEN 16 ELSE 12

Check_byte_len(check) == IF check.count # <<>> THEN 16 ELSE 12

Check_header(check) ==
    <<207>> \o u16_to_be_bytes(Check_byte_len(check))
            \o << BitOr(check.width, check.cond) >>

Check_payload(check) ==
    u32_to_be_bytes(check.address) \o u32_to_be_bytes(check.mask)

\* mutant: the count is put before the address and the mask
Check_payload_with_count_CountFirst(check) ==
    u32_to_be_bytes(check.count[1]) \o u32_to_be_bytes(check.address)
        \o u32_to_be_bytes(check.mask)

Check_payload_with_count(check) ==
    u32_to_be_bytes(check.address) \o u32_to_be_bytes(check.mask)
        \o u32_to_be_bytes(check.count[1])

(***************************************************************************)
(* Grouping.  index is the 0-based position of the command in the slice.   *)
(***************************************************************************)
\* mutant: every command gets the key of its position, nothing is merged
group_key_NoMerge(index, command) == <<index, Width_B4, WriteOp_Write>>

\* mutant: the key of a command that is no Write leaves its position out
group_key_NoIndex(index, command) ==
    IF command.kind = "Write"
    THEN <<USIZE_MAX, command.width, command.op>>
    ELSE <<0, Width_B4, WriteOp_Write>>

\* mutant: the key of a Write leaves its width out
group_key_IgnoreWidth(index, command) ==
    IF command.kind = "Write"
    THEN <<USIZE_MAX, Width_B4, command.op>>
    ELSE <<index, Width_B4, WriteOp_Write>>

\* mutant: the key of a Write leaves its op out
group_key_IgnoreOp(index, command) ==
    IF command.kind = "Write"
    THEN <<USIZE_MAX, command.width, WriteOp_Write>>
    ELSE <<index, Width_B4, WriteOp_Write>>

group_key(index, command) ==
    IF command.kind = "Write"
    THEN <<USIZE_MAX, command.width, command.op>>
    ELSE <<index, Width_B4, WriteOp_Write>>

\* key of the command at sequence position k (enumerate counts from 0)
KeyAt(cmds, k) == group_key(k - 1, cmds[k])

\* group_by: the group that starts at position s ends at the last position e
\* such that every command of s..e has the key of the command at s
group_end(cmds, s) ==
    CHOOSE e \in s..Len(cmds) :
        /\ e = Len(cmds) \/ KeyAt(cmds, e + 1) # KeyAt(cmds, s)
        /\ \A k \in s..(e - 1) : KeyAt(cmds, k + 1) = KeyAt(cmds, s)

(***************************************************************************)
(* Inputs.                                                                 *)
(***************************************************************************)
W1 == WriteCmd(Width_B4, WriteOp_Write, 19088743, 2125315823)   \* 0x01234567 0x7eadbeef
W2 == WriteCmd(Width_B4, WriteOp_Write, 1437226410, 322371584)  \* 0x55aa55aa 0x13370000
W3 == WriteCmd(Width_B2, WriteOp_Write, 19088743, 2125315823)
W4 == WriteCmd(Width_B4, WriteOp_Set, 19088743, 2125315823)
W5 == WriteCmd(Width_B1, WriteOp_Clear, 1437226410, 258)
K1 == CheckCmd(Width_B2, CheckCond_AnySet, 162254319, 1437226410, <<16>>)
K2 == CheckCmd(Width_B1, CheckCond_AnyClear, 162254319, 1437226410, <<>>)
K3 == CheckCmd(Width_B4, CheckCond_AllSet, 19088743, 65280, <<0>>)
K4 == CheckCmd(Width_B4, CheckCond_AllClear, 1437226410, 1, <<>>)

Cmds == {Nop, W1, W2, W3, W4, W5, K1, K2, K3, K4}

Repeat(c, n) == [k \in 1..n |-> c]

\* the largest group_size that passes the assertion of Write::byte_len
MaxRun == (U16_MAX - 4) \div 8

SmallInputs == UNION { [1..n -> Cmds] : n \in 0..MaxLen }

MediumInputs ==
    { Repeat(W1, MedRun),
      Repeat(W5, MedRun) \o <<Nop>>,
      <<K1>> \o Repeat(W4, MedRun) \o <<W3>> }

LargeInputs ==
    { Repeat(W1, MaxRun),
      Repeat(W1, MaxRun + 1),
      <<Nop>> \o Repeat(W4, MaxRun + 1),
      Repeat(W2, MaxRun - 1) \o <<K1>>,
      Repeat(W3, MaxRun - 1) \o <<Nop, Nop>> }

\* two Writes, or two Checks, of every pair of (width, op) or (width, cond)
FlagInputs ==
    { << WriteCmd(w1, o1, 19088743, 258), WriteCmd(w2, o2, 19088743, 258) >> :
          <<w1, o1, w2, o2>> \in Width \X WriteOp \X Width \X WriteOp }
    \cup
    { << CheckCmd(w1, c1, 19088743, 65280, <<>>), CheckCmd(w2, c2, 19088743, 65280, <<>>) >> :
          <<w1, c1, w2, c2>> \in Width \X CheckCond \X Width \X CheckCond }

\* tests::serialize_merge: three Writes {B4, Write}, a Nop, a fourth Write
\* {B4, Write}, and (in the test's list) a Write {B2, Write} and a Write
\* {B4, Write} after them
MergeScenario == <<W1, W2, W1, Nop, W2>>
MergeFixture == MergeScenario \o <<W3, W2>>

ScenarioInputs == {MergeScenario, MergeFixture}

Inputs ==
    SmallInputs \cup MediumInputs \cup LargeInputs \cup FlagInputs \cup ScenarioInputs

(***************************************************************************)
(* serialize                                                               *)
(***************************************************************************)
Init ==
    /\ commands \in Inputs
    /\ pc = "start"
    /\ i = 0
    /\ j = 0
    /\ byte_len = 0
    /\ out = <<>>
    /\ nwrites = 0
    /\ result = "none"
    /\ ret = 0
    /\ margs = <<>>
    /\ mtrailing = FALSE
    /\ mcmd = Nop
    /\ mpc = "idle"

\* mutant: the error of a failed write is recorded but not returned (no `?`)
write_all_NoReturn(buf, next_pc, next_i, next_j) ==
    /\ nwrites' = nwrites + 1
    /\ pc' = next_pc
    /\ i' = next_i
    /\ j' = next_j
    /\ UNCHANGED ret
    /\ \/ /\ out' = out \o buf
          /\ UNCHANGED result
       \/ /\ \E k \in 0..Len(buf) : out' = out \o SubSeq(buf, 1, k)
          /\ result' = "io_error"

\* w.write_all(buf)?: the sink accepts buf, or fails having accepted a prefix
\* of it (all of it included), and the error is returned
write_all(buf, next_pc, next_i, next_j) ==
    /\ nwrites' = nwrites + 1
    /\ \/ /\ out' = out \o buf
          /\ pc' = next_pc
          /\ i' = next_i
          /\ j' = next_j
          /\ UNCHANGED <<result, ret>>
       \/ /\ \E k \in 0..Len(buf) : out' = out \o SubSeq(buf, 1, k)
          /\ pc' = "done"
          /\ result' = "io_error"
          /\ UNCHANGED <<i, j, ret>>

\* mutant: the early return on an empty list is missing
Start_NoEmptyCheck ==
    /\ pc = "start"
    /\ pc' = "size"
    /\ i' = 1
    /\ byte_len' = 4
    /\ UNCHANGED <<commands, j, out, nwrites, result, ret, mvars>>

\* if commands.is_empty() { return Ok(0); }   let mut byte_len = 4;
Start ==
    /\ pc = "start"
    /\ IF commands = <<>>
       THEN /\ pc' = "done"
            /\ result' = "ok"
            /\ ret' = 0
            /\ UNCHANGED <<i, byte_len>>
       ELSE /\ pc' = "size"
            /\ i' = 1
            /\ byte_len' = 4
            /\ UNCHANGED <<result, ret>>
    /\ UNCHANGED <<commands, j, out, nwrites, mvars>>

\* one iteration of the sizing loop: the group whose head is commands[i]
SizeGroup ==
    /\ pc = "size"
    /\ i <= Len(commands)
    /\ LET head == commands[i]
           e == group_end(commands, i)
       IN  /\ i' = e + 1
           /\ IF head.kind = "Nop"
              THEN /\ byte_len' = byte_len + 4
                   /\ UNCHANGED <<pc, result>>
              ELSE IF head.kind = "Check"
              THEN /\ byte_len' = byte_len + Check_byte_len(head)
                   /\ UNCHANGED <<pc, result>>
              ELSE IF Write_byte_len_assert(e - i + 1)
              THEN /\ byte_len' = byte_len + Write_byte_len(e - i + 1)
                   /\ UNCHANGED <<pc, result>>
              ELSE /\ pc' = "done"
                   /\ result' = "panic"
                   /\ UNCHANGED byte_len
    /\ UNCHANGED <<commands, j, out, nwrites, ret, mvars>>

\* if byte_len > u16::MAX as usize { return Err(InvalidInput) }
CheckLen ==
    /\ pc = "size"
    /\ i > Len(commands)
    /\ IF byte_len > U16_MAX
       THEN /\ pc' = "done"
            /\ result' = "invalid_input"
       ELSE /\ pc' = "header"
            /\ UNCHANGED result
    /\ UNCHANGED <<commands, i, j, byte_len, out, nwrites, ret, mvars>>

\* w.write_all(&dcd_header(byte_len as u16))?;
EmitHeader ==
    /\ pc = "header"
    /\ write_all(dcd_header(byte_len % (U16_MAX + 1)), "emit", 1, j)
    /\ UNCHANGED <<commands, byte_len, mvars>>

\* Command::Nop => w.write_all(&NOP_HEADER)?
EmitNop ==
    /\ pc = "emit"
    /\ i <= Len(commands)
    /\ commands[i].kind = "Nop"
    /\ write_all(NOP_HEADER, "emit", group_end(commands, i) + 1, j)
    /\ UNCHANGED <<commands, byte_len, mvars>>

\* Command::Check(check) => w.write_all(&check.header())?
EmitCheckHeader ==
    /\ pc = "emit"
    /\ i <= Len(commands)
    /\ commands[i].kind = "Check"
    /\ write_all(Check_header(commands[i]), "check_payload", i, j)
    /\ UNCHANGED <<commands, byte_len, mvars>>

\* the payload of the check, with the count when count.is_some()
EmitCheckPayload ==
    /\ pc = "check_payload"
    /\ LET check == commands[i]
       IN  write_all(IF check.count # <<>> THEN Check_payload_with_count(check)
                                           ELSE Check_payload(check),
                     "emit", group_end(commands, i) + 1, j)
    /\ UNCHANGED <<commands, byte_len, mvars>>

\* Command::Write(write) => w.write_all(&write.header(counter.count() + 1))?
EmitWriteHeader ==
    /\ pc = "emit"
    /\ i <= Len(commands)
    /\ commands[i].kind = "Write"
    /\ LET n == group_end(commands, i) - i + 1
       IN  IF Write_byte_len_assert(n)
           THEN write_all(Write_header(commands[i], n), "write_payload", i, j)
           ELSE /\ pc' = "done"
                /\ result' = "panic"
                /\ UNCHANGED <<i, j, out, nwrites, ret>>
    /\ UNCHANGED <<commands, byte_len, mvars>>

\* w.write_all(&write.payload())?  for the head of the group
EmitWritePayload ==
    /\ pc = "write_payload"
    /\ write_all(Write_payload(commands[i]), "write_rest", i, i + 1)
    /\ UNCHANGED <<commands, byte_len, mvars>>

\* for (_, command) in rest { if let Command::Write(write) = command { ... } }
EmitWriteRest ==
    /\ pc = "write_rest"
    /\ j <= group_end(commands, i)
    /\ IF commands[j].kind = "Write"
       THEN write_all(Write_payload(commands[j]), "write_rest", i, j + 1)
       ELSE /\ j' = j + 1
            /\ UNCHANGED <<pc, i, out, nwrites, result, ret>>
    /\ UNCHANGED <<commands, byte_len, mvars>>

\* the rest of the group is exhausted: on to the next group
EndGroup ==
    /\ pc = "write_rest"
    /\ j > group_end(commands, i)
    /\ pc' = "emit"
    /\ i' = group_end(commands, i) + 1
    /\ UNCHANGED <<commands, j, byte_len, out, nwrites, result, ret, mvars>>

\* Ok(byte_len)
Finish ==
    /\ pc = "emit"
    /\ i > Len(commands)
    /\ pc' = "done"
    /\ result' = "ok"
    /\ ret' = byte_len
    /\ UNCHANGED <<commands, i, j, byte_len, out, nwrites, mvars>>

Next ==
    \/ Start
    \/ SizeGroup
    \/ CheckLen
    \/ EmitHeader
    \/ EmitNop
    \/ EmitCheckHeader
    \/ EmitCheckPayload
    \/ EmitWriteHeader
    \/ EmitWritePayload
    \/ EmitWriteRest
    \/ EndGroup
    \/ Finish

Spec == Init /\ [][Next]_vars

(***************************************************************************)
(* The command-builder macros (src/src/macros.rs).                         *)
(*                                                                         *)
(* A register of the RAL is [address, bytes, fields], a field [offset,     *)
(* mask].  An arg is  FIELD: value  ("field_value"),  @FIELD               *)
(* ("field_mask") or an expression ("expr", given by its value).           *)
(***************************************************************************)
\* ccm_analog::PLL_ARM, as the tests of macros.rs show it
PLL_ARM ==
    [ address |-> 1074626560,                               \* 0x400D_8000
      bytes   |-> 4,
      fields  |-> [ BYPASS         |-> [offset |-> 16, mask |-> 65536],
                    BYPASS_CLK_SRC |-> [offset |-> 14, mask |-> 49152],
                    ENABLE         |-> [offset |-> 13, mask |-> 8192] ] ]

FieldValue(f, v) == [form |-> "field_value", field |-> f, value |-> v]
FieldMask(f) == [form |-> "field_mask", field |-> f]
Expr(v) == [form |-> "expr", value |-> v]

\* Width::from_reg: the width of a register of 1, 2 or 4 bytes
Width_from_reg(reg) ==
    IF reg.bytes = 1 THEN Width_B1
    ELSE IF reg.bytes = 2 THEN Width_B2
    ELSE Width_B4

\* mutant: the shifted value is not masked with the field's mask
arg_value_NoMask(reg, arg) ==
    IF arg.form = "field_value"
    THEN Shl32(arg.value, reg.fields[arg.field].offset)
    ELSE IF arg.form = "field_mask"
    THEN reg.fields[arg.field].mask
    ELSE arg.value

\* what the first arg of a @build_value rule expands to
arg_value(reg, arg) ==
    IF arg.form = "field_value"
    THEN BitAnd(Shl32(arg.value, reg.fields[arg.field].offset),
                reg.fields[arg.field].mask)
    ELSE IF arg.form = "field_mask"
    THEN reg.fields[arg.field].mask
    ELSE arg.value

\* internal!(@build_value access args): the first arg, and `| rest` only when
\* a comma follows it; an empty rest (after a trailing comma) is 0
RECURSIVE build_value(_, _, _)
build_value(reg, args, trailing) ==
    IF args = <<>> THEN 0
    ELSE IF Len(args) = 1 /\ ~trailing THEN arg_value(reg, args[1])
    ELSE BitOr(arg_value(reg, args[1]), build_value(reg, Tail(args), trailing))

make_write_command(op, reg, value) ==
    WriteCmd(Width_from_reg(reg), op, reg.address, value)

make_check_command(cond, count, reg, mask) ==
    CheckCmd(Width_from_reg(reg), cond, reg.address, mask, count)

Args ==
    { FieldValue("BYPASS", 3),
      FieldValue("BYPASS_CLK_SRC", 1), FieldValue("BYPASS_CLK_SRC", 2),
      FieldMask("BYPASS"), FieldMask("ENABLE"),
      Expr(16384), Expr(5) }

MacroInit ==
    /\ margs \in UNION { [1..n -> Args] : n \in 1..MaxArgs }
    /\ mtrailing \in BOOLEAN
    /\ mcmd = Nop
    /\ mpc = "call"
    /\ commands = <<>>
    /\ pc = "idle"
    /\ i = 0
    /\ j = 0
    /\ byte_len = 0
    /\ out = <<>>
    /\ nwrites = 0
    /\ result = "none"
    /\ ret = 0

\* the invocation evaluates to cmd
Built(cmd) ==
    /\ mcmd' = cmd
    /\ mpc' = "built"
    /\ UNCHANGED <<margs, mtrailing>>
    /\ UNCHANGED <<commands, pc, i, j, byte_len, out, nwrites, result, ret>>

write_reg ==
    /\ mpc = "call"
    /\ Built(make_write_command(WriteOp_Write, PLL_ARM, build_value(PLL_ARM, margs, mtrailing)))

set_reg ==
    /\ mpc = "call"
    /\ Built(make_write_command(WriteOp_Set, PLL_ARM, build_value(PLL_ARM, margs, mtrailing)))

clear_reg ==
    /\ mpc = "call"
    /\ Built(make_write_command(WriteOp_Clear, PLL_ARM, build_value(PLL_ARM, margs, mtrailing)))

check_all_clear ==
    /\ mpc = "call"
    /\ Built(make_check_command(CheckCond_AllClear, <<>>, PLL_ARM,
                                build_value(PLL_ARM, margs, mtrailing)))

check_any_clear ==
    /\ mpc = "call"
    /\ Built(make_check_command(CheckCond_AnyClear, <<>>, PLL_ARM,
                                build_value(PLL_ARM, margs, mtrailing)))

check_all_set ==
    /\ mpc = "call"
    /\ Built(make_check_command(CheckCond_AllSet, <<>>, PLL_ARM,
                                build_value(PLL_ARM, margs, mtrailing)))

check_any_set ==
    /\ mpc = "call"
    /\ Built(make_check_command(CheckCond_AnySet, <<>>, PLL_ARM,
                                build_value(PLL_ARM, margs, mtrailing)))

MacroNext ==
    \/ write_reg
    \/ set_reg
    \/ clear_reg
    \/ check_all_clear
    \/ check_any_clear
    \/ check_all_set
    \/ check_any_set

MacroSpec == MacroInit /\ [][MacroNext]_vars

(***************************************************************************)
(* Reading the emitted block back: the record structure of the format      *)
(* (spec, section 6), used to state the properties of the output.          *)
(***************************************************************************)
Succeeded == pc = "done" /\ result = "ok" /\ commands # <<>>

BadRecord == [tag |-> 0, len |-> 0, flag |-> 0, body |-> <<>>]

\* the records found in bytes from position p on, each delimited by its own
\* length field; a record that does not fit ends the list with BadRecord
RECURSIVE ParseFrom(_, _)
ParseFrom(bytes, p) ==
    IF p > Len(bytes) THEN <<>>
    ELSE IF p + 3 > Len(bytes) THEN <<BadRecord>>
    ELSE LET len == bytes[p + 1] * 256 + bytes[p + 2]
         IN  IF len < 4 \/ p + len - 1 > Len(bytes)
             THEN <<BadRecord>>
             ELSE << [tag |-> bytes[p], len |-> len, flag |-> bytes[p + 3],
                      body |-> SubSeq(bytes, p + 4, p + len - 1)] >>
                  \o ParseFrom(bytes, p + len)

\* the records that follow the 4-byte block header
Records(bytes) == ParseFrom(bytes, 5)

\* the number of commands a record stands for
RecCount(r) == IF r.tag = 204 THEN (r.len - 4) \div 8 ELSE 1

\* the position in the input of the first command of record k
RECURSIVE RecFirst(_, _)
RecFirst(recs, k) ==
    IF k = 1 THEN 1 ELSE RecFirst(recs, k - 1) + RecCount(recs[k - 1])

\* the records stand for the whole input, each command once
Covers(recs, cmds) == RecFirst(recs, Len(recs) + 1) = Len(cmds) + 1

\* the record that stands for the command at position c
CmdRec(recs, c) ==
    CHOOSE k \in 1..Len(recs) :
        RecFirst(recs, k) <= c /\ c < RecFirst(recs, k) + RecCount(recs[k])

(***************************************************************************)
(* Runs as the specification defines them: maximal contiguous runs of      *)
(* Write commands that share width and op; any other command is alone.     *)
(***************************************************************************)
SameRun(a, b) ==
    a.kind = "Write" /\ b.kind = "Write" /\ a.width = b.width /\ a.op = b.op

RunStarts(cmds) ==
    { s \in 1..Len(cmds) : s = 1 \/ ~SameRun(cmds[s - 1], cmds[s]) }

RunEnd(cmds, s) ==
    CHOOSE e \in s..Len(cmds) :
        /\ e = Len(cmds) \/ ~SameRun(cmds[e], cmds[e + 1])
        /\ \A k \in s..(e - 1) : SameRun(cmds[k], cmds[k + 1])

RunLen(cmds, s) == RunEnd(cmds, s) - s + 1

\* the record length of the run that starts at s
RunRecordLen(cmds, s) ==
    IF cmds[s].kind = "Nop" THEN 4
    ELSE IF cmds[s].kind = "Check" THEN (IF cmds[s].count = <<>> THEN 12 ELSE 16)
    ELSE 4 + RunLen(cmds, s) * 8

RECURSIVE SumRunLens(_, _)
SumRunLens(cmds, S) ==
    IF S = {} THEN 0
    ELSE LET s == CHOOSE x \in S : TRUE
         IN  RunRecordLen(cmds, s) + SumRunLens(cmds, S \ {s})

\* 4 + the sum of the record lengths of the runs
ComputedTotal(cmds) == 4 + SumRunLens(cmds, RunStarts(cmds))

\* big-endian byte b (1..4) of a 32-bit value
BE32(x, b) ==
    IF b = 1 THEN (x \div 16777216) % 256
    ELSE IF b = 2 THEN (x \div 65536) % 256
    ELSE IF b = 3 THEN (x \div 256) % 256
    ELSE x % 256

RECURSIVE SumRecLens(_, _)
SumRecLens(recs, k) == IF k = 0 THEN 0 ELSE recs[k].len + SumRecLens(recs, k - 1)

(***************************************************************************)
(* Properties.                                                             *)
(***************************************************************************)

\* C1: on a non-empty input, when serialize returns Ok(n) (no sink write
\* failed), n equals the big-endian 16-bit length field in bytes 1..2 of the
\* emitted block header and equals the number of bytes the sink accepted.
C1_ReturnEqualsHeaderLenEqualsWritten ==
    Succeeded =>
        /\ Len(out) >= 4
        /\ ret = out[2] * 256 + out[3]
        /\ ret = Len(out)

\* a successful encode whose length does not fit one byte, with a merged run
\* and a check in it
C1_Witness ==
    /\ Succeeded
    /\ ret > 255
    /\ \E c \in 1..Len(commands) : commands[c].kind = "Check"

\* C2: with an empty command list serialize performs no write to the sink,
\* not even the block header, and returns Ok(0).
C2_EmptyWritesNothing ==
    commands = <<>> =>
        /\ nwrites = 0
        /\ out = <<>>
        /\ pc = "done" => (result = "ok" /\ ret = 0)

C2_Witness == commands = <<>> /\ pc = "done" /\ result = "ok"

\* C3: whenever the computed total length (4 + the record lengths of the runs)
\* exceeds 65535, serialize ends with the input-validation error and the sink
\* is untouched.
C3_OversizeIsErrorSinkUntouched ==
    (pc = "done" /\ ComputedTotal(commands) > U16_MAX) =>
        /\ result = "invalid_input"
        /\ nwrites = 0
        /\ out = <<>>

\* C4: serialize never panics: the assertion of Write::byte_len holds for
\* every run size passed to it, and the only failures are the
\* input-validation error and a sink error.
C4_NoPanic ==
    /\ result \in {"none", "ok", "invalid_input", "io_error"}
    /\ (pc = "size" /\ i <= Len(commands) /\ commands[i].kind = "Write")
          => Write_byte_len_assert(group_end(commands, i) - i + 1)
    /\ (pc = "emit" /\ i <= Len(commands) /\ commands[i].kind = "Write")
          => Write_byte_len_assert(group_end(commands, i) - i + 1)

\* C5: on success the Write records are exactly the maximal contiguous runs of
\* Writes sharing (width, op): each record starts at the start of a run and, for
\* a Write run of n commands, is one Write record of length 4 + 8n holding n
\* pairs; no two consecutive records are Write records with the same flag byte.
C5_WriteRecordsAreMaximalRuns ==
    Succeeded =>
        LET recs == Records(out)
            starts == RunStarts(commands)
        IN  /\ Covers(recs, commands)
            /\ Len(recs) = Cardinality(starts)
            /\ \A k \in 1..Len(recs) :
                  LET s == RecFirst(recs, k)
                  IN  /\ s \in starts
                      /\ (recs[k].tag = 204) = (commands[s].kind = "Write")
                      /\ commands[s].kind = "Write" =>
                            /\ RecCount(recs[k]) = RunLen(commands, s)
                            /\ recs[k].len = 4 + 8 * RunLen(commands, s)
                            /\ Len(recs[k].body) = 8 * RunLen(commands, s)
            /\ \A k \in 1..(Len(recs) - 1) :
                  ~ (/\ recs[k].tag = 204
                     /\ recs[k + 1].tag = 204
                     /\ recs[k].flag = recs[k + 1].flag)

\* two adjacent Writes with identical width and op, emitted as one record of
\* length 20
C5_Witness ==
    /\ Succeeded
    /\ commands = <<W1, W2>>
    /\ Len(Records(out)) = 1
    /\ Records(out)[1].len = 20

\* C6: on success every Nop and every Check of the input has a record of its
\* own (one command, tag 0xC0 or 0xCF), also next to an identical Nop or Check;
\* so two Writes of identical width and op with a command that is no Write
\* between them lie in two different records.
C6_NopAndCheckNeverMerged ==
    Succeeded =>
        LET recs == Records(out)
        IN  /\ Covers(recs, commands)
            /\ \A c \in 1..Len(commands) :
                  commands[c].kind # "Write" =>
                      \E k \in 1..Len(recs) :
                          /\ RecFirst(recs, k) = c
                          /\ RecFirst(recs, k + 1) = c + 1
                          /\ recs[k].tag = (IF commands[c].kind = "Nop" THEN 192 ELSE 207)
            /\ \A a, b, c \in 1..Len(commands) :
                  (/\ a < b /\ b < c
                   /\ commands[b].kind # "Write"
                   /\ SameRun(commands[a], commands[c]))
                      => CmdRec(recs, a) # CmdRec(recs, c)

\* identical Writes split by one Nop, and two identical neighbours that are no
\* Writes, all encoded
C6_Witness ==
    /\ Succeeded
    /\ commands \in {<<W1, Nop, W1>>, <<Nop, Nop, Nop>>, <<K2, K2, W1>>}
    /\ Len(Records(out)) = 3

\* C7: on success two adjacent Writes that differ in width or in op lie in two
\* different records, each a Write record whose flag byte is width | op of the
\* command itself.
C7_DifferentKeyNotMerged ==
    Succeeded =>
        LET recs == Records(out)
        IN  /\ Covers(recs, commands)
            /\ \A c \in 1..(Len(commands) - 1) :
                  (/\ commands[c].kind = "Write"
                   /\ commands[c + 1].kind = "Write"
                   /\ \/ commands[c].width # commands[c + 1].width
                      \/ commands[c].op # commands[c + 1].op)
                      =>
                      LET r1 == CmdRec(recs, c)
                          r2 == CmdRec(recs, c + 1)
                      IN  /\ r1 # r2
                          /\ recs[r1].tag = 204
                          /\ recs[r2].tag = 204
                          /\ recs[r1].flag = commands[c].width + commands[c].op
                          /\ recs[r2].flag = commands[c + 1].width + commands[c + 1].op

\* adjacent Writes that differ in op only (same width, address and value)
C7_Witness ==
    /\ Succeeded
    /\ commands = <<W1, W4>>
    /\ Len(Records(out)) = 2

\* C8: on success every Write of the input lies in a Write record, and every
\* Write record standing for n commands is: tag 0xCC, length 4 + 8n, flag
\* width | op, then n pairs of big-endian address and big-endian value, one per
\* command of the run in input order.
C8_WriteRecordLayout ==
    Succeeded =>
        LET recs == Records(out)
        IN  /\ Covers(recs, commands)
            /\ \A c \in 1..Len(commands) :
                  commands[c].kind = "Write" => recs[CmdRec(recs, c)].tag = 204
            /\ \A k \in 1..Len(recs) :
                  recs[k].tag = 204 =>
                      LET s == RecFirst(recs, k)
                          n == RecCount(recs[k])
                      IN  /\ n >= 1
                          /\ recs[k].len = 4 + n * 8
                          /\ Len(recs[k].body) = n * 8
                          /\ \A m \in 0..(n - 1) :
                                LET cmd == commands[s + m]
                                IN  /\ cmd.kind = "Write"
                                    /\ recs[k].flag = cmd.width + cmd.op
                                    /\ \A b \in 1..4 :
                                          /\ recs[k].body[8 * m + b] = BE32(cmd.address, b)
                                          /\ recs[k].body[8 * m + 4 + b] = BE32(cmd.value, b)

\* a run of three Writes with different addresses and values, in one record
C8_Witness ==
    /\ Succeeded
    /\ commands = <<W1, W2, W1>>
    /\ Len(Records(out)) = 1
    /\ RecCount(Records(out)[1]) = 3

\* C9: on success every Check is one record with tag 0xCF, flag width | cond,
\* big-endian address and mask, and a length field equal to the bytes emitted
\* for it: 12 without a count field when count is None, 16 with a trailing
\* big-endian count when count is Some(x), Some(0) included.
C9_CheckRecordLayout ==
    Succeeded =>
        LET recs == Records(out)
        IN  /\ Covers(recs, commands)
            /\ \A c \in 1..Len(commands) :
                  commands[c].kind = "Check" =>
                      LET cmd == commands[c]
                          r == recs[CmdRec(recs, c)]
                          total == IF cmd.count = <<>> THEN 12 ELSE 16
                      IN  /\ RecFirst(recs, CmdRec(recs, c)) = c
                          /\ r.tag = 207
                          /\ r.flag = cmd.width + cmd.cond
                          /\ r.len = total
                          /\ Len(r.body) = total - 4
                          /\ \A b \in 1..4 :
                                /\ r.body[b] = BE32(cmd.address, b)
                                /\ r.body[4 + b] = BE32(cmd.mask, b)
                                /\ cmd.count # <<>> => r.body[8 + b] = BE32(cmd.count[1], b)

\* a Check with count Some(0) emitted as a full 16-byte record, beside one with
\* count None
C9_Witness ==
    /\ Succeeded
    /\ commands = <<K3, K2>>
    /\ Len(out) = 4 + 16 + 12
    /\ out[5] = 207

\* C10: the first bytes the sink accepts are those of the block header; on
\* success the output is one header [0xD2, len_hi, len_lo, 0x41] followed by
\* exactly one record per run in input order, and the header's length is 4 plus
\* the sum of the length fields of the records (Nop 4, Check 12 or 16, Write
\* 4 + 8n).
C10_OneHeaderThenOneRecordPerRun ==
    /\ out # <<>> => (out[1] = 210 /\ nwrites >= 1)
    /\ Len(out) >= 2 => out[2] = (byte_len \div 256) % 256
    /\ Len(out) >= 3 => out[3] = byte_len % 256
    /\ Len(out) >= 4 => out[4] = 65
    /\ Succeeded =>
        LET recs == Records(out)
            starts == RunStarts(commands)
        IN  /\ out[1] = 210
            /\ out[4] = 65
            /\ Covers(recs, commands)
            /\ Len(recs) = Cardinality(starts)
            /\ \A k \in 1..Len(recs) :
                  LET s == RecFirst(recs, k)
                  IN  /\ s \in starts
                      /\ recs[k].tag = (IF commands[s].kind = "Nop" THEN 192
                                        ELSE IF commands[s].kind = "Check" THEN 207
                                        ELSE 204)
                      /\ recs[k].len = RunRecordLen(commands, s)
            /\ out[2] * 256 + out[3] = 4 + SumRecLens(recs, Len(recs))
            /\ Len(out) = 4 + SumRecLens(recs, Len(recs))

\* a block of three records of the three kinds whose length needs both bytes
C10_Witness ==
    /\ Succeeded
    /\ commands = <<K1>> \o Repeat(W4, MedRun) \o <<W3>>
    /\ Len(Records(out)) = 3
    /\ out[2] > 0

\* C11: a failed sink write is one call (no retry), and once it has failed
\* serialize makes no further sink call, the sink's bytes stay as they are, and
\* the outcome stays that sink error, with no byte count returned.
C11_SinkFailureAborts ==
    [][ /\ (result # "io_error" /\ result' = "io_error") =>
              (nwrites' = nwrites + 1 /\ pc' = "done" /\ ret' = 0)
        /\ result = "io_error" =>
              (nwrites' = nwrites /\ out' = out /\ result' = "io_error" /\ ret' = ret)
      ]_vars

\* a sink failure on a record part, after the header and one record went through
C11_Witness ==
    /\ result = "io_error"
    /\ pc = "done"
    /\ nwrites = 3
    /\ Len(out) > 8
    /\ Len(commands) = 3

\* C12: the flag byte is lossless.  The width tags use bits [2:0] only and the
\* op and cond tags bits [4:3] only; in every emitted header the flag byte
\* masked with 0b00111 is the width and masked with 0b11000 is the op (cond) of
\* every command the record stands for; so two Write (two Check) records of one
\* block carry the same flag byte only if their width and op (cond) are equal.
C12_FlagByteLossless ==
    /\ \A w \in Width : w > 0 /\ BitAnd(w, 7) = w
    /\ \A t \in WriteOp \cup CheckCond : BitAnd(t, 24) = t
    /\ Succeeded =>
        LET recs == Records(out)
            Tag(c) == IF commands[c].kind = "Write" THEN commands[c].op
                      ELSE commands[c].cond
        IN  /\ Covers(recs, commands)
            /\ \A c \in 1..Len(commands) :
                  commands[c].kind # "Nop" =>
                      LET f == recs[CmdRec(recs, c)].flag
                      IN  /\ BitAnd(f, 7) = commands[c].width
                          /\ BitAnd(f, 24) = Tag(c)
            /\ \A c, d \in 1..Len(commands) :
                  (/\ commands[c].kind # "Nop"
                   /\ commands[c].kind = commands[d].kind
                   /\ recs[CmdRec(recs, c)].flag = recs[CmdRec(recs, d)].flag)
                      => (commands[c].width = commands[d].width /\ Tag(c) = Tag(d))

\* two Checks that differ in width and in cond, both with the two-bit tags
\* that set bit 4, encoded side by side
C12_Witness ==
    /\ Succeeded
    /\ Len(commands) = 2
    /\ commands[1].kind = "Check" /\ commands[2].kind = "Check"
    /\ commands[1].width = Width_B4 /\ commands[1].cond = CheckCond_AllSet
    /\ commands[2].width = Width_B1 /\ commands[2].cond = CheckCond_AnySet
    /\ Len(Records(out)) = 2

\* C13 as stated: three Writes {B4, Write}, a Nop and a fourth Write
\* {B4, Write} encode to a 28-byte Write record, the Nop's 4-byte record and a
\* 12-byte Write record, and the block size (header length field and return
\* value) is 72.
C13_ScenarioTotalIs72 ==
    (Succeeded /\ commands = MergeScenario) =>
        LET recs == Records(out)
        IN  /\ Len(recs) = 3
            /\ recs[1].tag = 204 /\ recs[1].len = 28
            /\ recs[2].tag = 192 /\ recs[2].len = 4
            /\ recs[3].tag = 204 /\ recs[3].len = 12
            /\ ret = 72
            /\ out[2] * 256 + out[3] = 72

\* C13 amended: those five commands encode to a 28-byte Write record, the
\* Nop's 4-byte record and a 12-byte Write record, and the block size (header
\* length field, return value and bytes written) is 48 = 4 + 28 + 4 + 12; the
\* 72 bytes are the size of the list of tests::serialize_merge, which has two
\* more Writes ({B2, Write}, then {B4, Write}), each a record of 12 bytes.
C13_ScenarioTotalIs48 ==
    /\ (Succeeded /\ commands = MergeScenario) =>
          LET recs == Records(out)
          IN  /\ Len(recs) = 3
              /\ recs[1].tag = 204 /\ recs[1].len = 28
              /\ recs[2].tag = 192 /\ recs[2].len = 4
              /\ recs[3].tag = 204 /\ recs[3].len = 12
              /\ ret = 48
              /\ out[2] * 256 + out[3] = 48
              /\ Len(out) = 48
    /\ (Succeeded /\ commands = MergeFixture) =>
          LET recs == Records(out)
          IN  /\ Len(recs) = 5
              /\ recs[1].len = 28 /\ recs[2].len = 4 /\ recs[3].len = 12
              /\ recs[4].tag = 204 /\ recs[4].len = 12
              /\ recs[5].tag = 204 /\ recs[5].len = 12
              /\ ret = 72
              /\ out[2] * 256 + out[3] = 72
              /\ Len(out) = 72

\* the five commands of the scenario, encoded
C13_Witness ==
    /\ Succeeded
    /\ commands = MergeScenario
    /\ nwrites = 8
    /\ Len(out) = 48

\* the positions, counted from b, of the bits set in x
RECURSIVE BitsFrom(_, _)
BitsFrom(x, b) ==
    IF x = 0 THEN {}
    ELSE (IF x % 2 = 1 THEN {b} ELSE {}) \cup BitsFrom(x \div 2, b + 1)

\* the bits set in x
Bits(x) == BitsFrom(x, 0)

\* the bits an arg contributes: (value << offset) & mask, the field's mask, or
\* the expression itself
ArgBits(reg, arg) ==
    IF arg.form = "field_value"
    THEN { b \in Bits(reg.fields[arg.field].mask) :
              /\ b >= reg.fields[arg.field].offset
              /\ (b - reg.fields[arg.field].offset) \in Bits(arg.value) }
    ELSE IF arg.form = "field_mask"
    THEN Bits(reg.fields[arg.field].mask)
    ELSE Bits(arg.value)

\* the value of a Write, the mask of a Check
BuiltValue(cmd) == IF cmd.kind = "Write" THEN cmd.value ELSE cmd.mask

Permutations(n) ==
    { p \in [1..n -> 1..n] : \A a, b \in 1..n : p[a] = p[b] => a = b }

\* C14: the value (mask) of the command a macro builds is the bitwise OR of
\* the contributions of its args ((value << offset) & mask for FIELD: value,
\* the field's mask for @FIELD, the expression itself otherwise); the same
\* arg list with the trailing comma added or removed builds the same value,
\* and so does the arg list in any other order.
C14_ValueIsOrOfArgs ==
    mpc = "built" =>
        LET v == BuiltValue(mcmd)
        IN  /\ Bits(v) = UNION { ArgBits(PLL_ARM, margs[k]) : k \in 1..Len(margs) }
            /\ build_value(PLL_ARM, margs, ~mtrailing) = v
            /\ \A p \in Permutations(Len(margs)) :
                  build_value(PLL_ARM, [k \in 1..Len(margs) |-> margs[p[k]]], mtrailing) = v

\* an invocation with the three forms of arg and a trailing comma, one of them
\* a value wider than its field
C14_Witness ==
    /\ mpc = "built"
    /\ mtrailing
    /\ margs = << FieldValue("BYPASS", 3), FieldMask("ENABLE"), Expr(5) >>
    /\ mcmd.kind = "Check"
    /\ mcmd.mask = 65536 + 8192 + 5

\* the 32-bit value whose big-endian bytes are body[p..p+3]
FromBE32(body, p) ==
    body[p] * 16777216 + body[p + 1] * 65536 + body[p + 2] * 256 + body[p + 3]

\* the commands a record stands for, read from its bytes alone
DecodeRecord(r) ==
    IF r.tag = 192 /\ r.len = 4 /\ r.flag = 0
    THEN << Nop >>
    ELSE IF r.tag = 207 /\ r.len \in {12, 16}
    THEN << CheckCmd(BitAnd(r.flag, 7), BitAnd(r.flag, 24),
                     FromBE32(r.body, 1), FromBE32(r.body, 5),
                     IF r.len = 16 THEN << FromBE32(r.body, 9) >> ELSE <<>>) >>
    ELSE IF r.tag = 204 /\ (r.len - 4) % 8 = 0
    THEN [ m \in 1..((r.len - 4) \div 8) |->
              WriteCmd(BitAnd(r.flag, 7), BitAnd(r.flag, 24),
                       FromBE32(r.body, 8 * m - 7), FromBE32(r.body, 8 * m - 3)) ]
    ELSE <<>>

RECURSIVE DecodeRecords(_, _)
DecodeRecords(recs, k) ==
    IF k > Len(recs) THEN <<>>
    ELSE DecodeRecord(recs[k]) \o DecodeRecords(recs, k + 1)

\* the command list read back from an emitted block
Decode(bytes) == DecodeRecords(Records(bytes), 1)

\* C15: merging loses nothing.  Whenever serialize succeeds, reading the
\* emitted records back in order (a Nop record to a Nop, a Check record to a
\* Check with its width, cond, address, mask and count, a Write record of n
\* pairs to n Writes with the record's width and op) gives exactly the input
\* list.  The reading uses the bytes alone, so two different command lists
\* never encode to the same bytes.
C15_DecodeGivesInput ==
    (pc = "done" /\ result = "ok") =>
        /\ commands # <<>> => (Len(out) >= 4 /\ out[1] = 210 /\ out[4] = 65)
        /\ Decode(out) = commands

\* a merged run of two different Writes, a Write of another op and a Check
\* with a count, read back
C15_Witness ==
    /\ Succeeded
    /\ commands \in {<<W1, W2, W4>>, <<W2, W1, K1>>}
    /\ Len(Records(out)) = 2
    /\ Len(Decode(out)) = 3

\* the four big-endian bytes of x
BE32Bytes(x) == [b \in 1..4 |-> BE32(x, b)]

\* the bytes of the block that belong to the command at position c (format of
\* the spec, section 6): a Write that starts a run brings the record header
EncodedCommand(cmds, c) ==
    LET cmd == cmds[c]
    IN  IF cmd.kind = "Nop" THEN <<192, 0, 4, 0>>
        ELSE IF cmd.kind = "Check"
        THEN <<207, 0, RunRecordLen(cmds, c), cmd.width + cmd.cond>>
             \o BE32Bytes(cmd.address) \o BE32Bytes(cmd.mask)
             \o (IF cmd.count = <<>> THEN <<>> ELSE BE32Bytes(cmd.count[1]))
        ELSE (IF c \in RunStarts(cmds)
              THEN <<204, RunRecordLen(cmds, c) \div 256, RunRecordLen(cmds, c) % 256,
                     cmd.width + cmd.op>>
              ELSE <<>>)
             \o BE32Bytes(cmd.address) \o BE32Bytes(cmd.value)

RECURSIVE EncodedFrom(_, _)
EncodedFrom(cmds, c) ==
    IF c > Len(cmds) THEN <<>>
    ELSE EncodedCommand(cmds, c) \o EncodedFrom(cmds, c + 1)

\* the block of a list of commands
FullEncoding(cmds) ==
    <<210, ComputedTotal(cmds) \div 256, ComputedTotal(cmds) % 256, 65>>
        \o EncodedFrom(cmds, 1)

IsPrefix(a, b) == Len(a) <= Len(b) /\ SubSeq(b, 1, Len(a)) = a

\* C16: at every point of a call, also after a sink failure at any write, the
\* bytes the sink has accepted are a prefix of the bytes of the successful
\* encode of the same commands (which are the block of the format), and once
\* the header is written their number is at most the length the header states.
C16_AcceptedBytesArePrefix ==
    /\ out # <<>> => IsPrefix(out, FullEncoding(commands))
    /\ Len(out) >= 4 => Len(out) <= out[2] * 256 + out[3]
    /\ Succeeded => out = FullEncoding(commands)

\* a sink failure in the middle of the payload of a Check, after the header
\* and a Nop record were accepted
C16_Witness ==
    /\ result = "io_error"
    /\ commands = <<Nop, K1, W1>>
    /\ nwrites = 4
    /\ Len(out) = 4 + 4 + 4 + 5

====
